---- MODULE Spec2Model ----
(***************************************************************************)
(* Model of sortable_poker_hands.py: PokerCard (rank weight, rank-only     *)
(* comparison) and PokerHand (construction with a stable sort of the       *)
(* cards, get_hand_weight, is_suited, is_a_straight, __eq__, __lt__).      *)
(*                                                                         *)
(* A card token "KS" is the pair <<"K", "S">>: token[1] is Python's        *)
(* card[0], token[2] is card[1].  A hand string is the sequence of its     *)
(* tokens, i.e. the result of hand.split(' ').  Python sequences are       *)
(* 0-based; cards and tuples here are 1-based and every index taken from   *)
(* the code is kept 0-based and shifted at the access (At0).               *)
(***************************************************************************)
EXTENDS Integers, Sequences, FiniteSets

\* ------------------------------------------------------------------ deck

\* The thirteen valid rank characters, strongest first.
RankChars == <<"A", "K", "Q", "J", "T", "9", "8", "7", "6", "5", "4", "3", "2">>

\* The four valid suit characters.
SuitChars == <<"S", "H", "D", "C">>

\* Python's ord() on the rank characters.
ord(c) ==
  CASE c = "2" -> 50 [] c = "3" -> 51 [] c = "4" -> 52 [] c = "5" -> 53
    [] c = "6" -> 54 [] c = "7" -> 55 [] c = "8" -> 56 [] c = "9" -> 57
    [] c = "A" -> 65 [] c = "J" -> 74 [] c = "K" -> 75 [] c = "Q" -> 81
    [] c = "T" -> 84

\* ------------------------------------------------------------- PokerCard

\* PokerCard.__init__
PokerCard(card) == [card |-> card, rank |-> card[1], suit |-> card[2]]

\* get_card_weight without its case for the Ten.
get_card_weight_noTen(self) ==
  IF self.rank = "J" THEN 4
  ELSE IF self.rank = "Q" THEN 3
  ELSE IF self.rank = "K" THEN 2
  ELSE IF self.rank = "A" THEN 1
  ELSE 63 - ord(self.rank)

\* PokerCard.get_card_weight
get_card_weight(self) ==
  IF self.rank = "T" THEN 5
  ELSE IF self.rank = "J" THEN 4
  ELSE IF self.rank = "Q" THEN 3
  ELSE IF self.rank = "K" THEN 2
  ELSE IF self.rank = "A" THEN 1
  ELSE 63 - ord(self.rank)

\* __eq__ comparing the cards' texts, suit included.
card_eq_text(self, other) == self.card = other.card

\* PokerCard.__eq__
card_eq(self, other) == get_card_weight(self) = get_card_weight(other)

\* PokerCard.__lt__
card_lt(self, other) == get_card_weight(self) < get_card_weight(other)

\* PokerCard.__sub__
card_sub(self, other) == get_card_weight(self) - get_card_weight(other)

\* ------------------------------------------------------------- sequences

\* s[i] for a 0-based index i.
At0(s, i) == s[i + 1]

\* s[:i-1] in place of s[:i].
Before0_short(s, i) == SubSeq(s, 1, i - 1)

\* Python's s[:i] for a 0-based index i.
Before0(s, i) == SubSeq(s, 1, i)

\* Python's s[i+1:] for a 0-based index i.
After0(s, i) == SubSeq(s, i + 2, Len(s))

\* list.index(x, start): the first 0-based position >= start holding x.
RECURSIVE index_from(_, _, _)
index_from(values, x, start) ==
  IF start >= Len(values) THEN -1
  ELSE IF At0(values, start) = x THEN start
  ELSE index_from(values, x, start + 1)

index(values, x) == index_from(values, x, 0)

\* x in values
contains(values, x) == \E i \in 1..Len(values) : values[i] = x

\* Insert card c into the sorted list s after every card that is not
\* greater than it: one step of a stable sort that only uses __lt__.
RECURSIVE insert_sorted(_, _)
insert_sorted(s, c) ==
  IF s = <<>> THEN <<c>>
  ELSE IF card_lt(c, s[Len(s)]) THEN
    Append(insert_sorted(SubSeq(s, 1, Len(s) - 1), c), s[Len(s)])
  ELSE Append(s, c)

\* list.sort() on cards: stable, ascending by __lt__.
RECURSIVE sort_cards(_)
sort_cards(cards) ==
  IF cards = <<>> THEN <<>>
  ELSE insert_sorted(sort_cards(SubSeq(cards, 1, Len(cards) - 1)),
                     cards[Len(cards)])

\* ------------------------------------------------------------- PokerHand

\* PokerHand.__init__: parse the tokens, then sort the cards.
PokerHand(hand) ==
  [hand |-> hand,
   cards |-> sort_cards([i \in 1..Len(hand) |-> PokerCard(hand[i])])]

\* The keys of the defaultdict built by get_hand_weight, in insertion order:
\* the ranks of self.cards in order of first occurrence.
RECURSIVE dict_keys(_)
dict_keys(cards) ==
  IF cards = <<>> THEN <<>>
  ELSE LET rest == dict_keys(SubSeq(cards, 1, Len(cards) - 1))
           r == cards[Len(cards)].rank
       IN IF contains(rest, r) THEN rest ELSE Append(rest, r)

\* list(hand.values()): the count of each key, in insertion order.
dict_values(cards) ==
  LET keys == dict_keys(cards)
  IN [k \in 1..Len(keys) |->
        Cardinality({i \in 1..Len(cards) : cards[i].rank = keys[k]})]

\* Python's False as returned by is_a_straight (a card is truthy).
False == [card |-> <<>>, rank |-> "", suit |-> ""]

\* Python's None as returned by a function that falls off its end.
None == <<>>

\* PokerHand.is_suited
is_suited(self) ==
  \A i \in 0..(Len(self.cards) - 2) :
     At0(self.cards, i).suit = At0(self.cards, i + 1).suit

\* is_a_straight returning the first card for the low straight as well.
is_a_straight_first(self) ==
  LET starter == IF At0(self.cards, 0).rank = "A" /\ At0(self.cards, 1).rank = "5"
                 THEN 1 ELSE 0
  IN IF \E i \in starter..(Len(self.cards) - 2) :
          card_sub(At0(self.cards, i + 1), At0(self.cards, i)) # 1
     THEN False
     ELSE At0(self.cards, 0)

\* PokerHand.is_a_straight: the high card of the straight, or False.
is_a_straight(self) ==
  LET starter == IF At0(self.cards, 0).rank = "A" /\ At0(self.cards, 1).rank = "5"
                 THEN 1 ELSE 0
  IN IF \E i \in starter..(Len(self.cards) - 2) :
          card_sub(At0(self.cards, i + 1), At0(self.cards, i)) # 1
     THEN False
     ELSE IF starter = 1 THEN At0(self.cards, 1)
     ELSE At0(self.cards, 0)

\* PokerHand.get_hand_weight: <<category, tie-break cards...>>, or None.
get_hand_weight(self) ==
  LET cards == self.cards
      values == dict_values(cards)
      length == Len(values)
  IN IF length = 5 THEN
       LET suited == is_suited(self)
           straight_high_card == is_a_straight(self)
       IN IF suited /\ straight_high_card # False THEN <<1, straight_high_card>>
          ELSE IF suited THEN <<4>> \o cards
          ELSE IF straight_high_card # False THEN <<5, straight_high_card>>
          ELSE <<9>> \o cards
     ELSE IF length = 2 THEN
       IF contains(values, 4) THEN
         LET i_four == index(values, 4)
             i_kicker == index(values, 1)
         IN <<2, At0(cards, i_four), At0(cards, i_kicker)>>
       ELSE
         LET i_triple == index(values, 3)
             i_pair == index(values, 2)
         IN <<3, At0(cards, i_triple), At0(cards, i_pair)>>
     ELSE IF length = 3 THEN
       IF contains(values, 3) THEN
         LET i_triple == index(values, 3)
         IN <<6, At0(cards, i_triple)>> \o Before0(cards, i_triple)
               \o After0(cards, i_triple)
       ELSE
         LET i_pair == index(values, 2)
             j_pair == index_from(values, 2, i_pair + 1)
             i_kicker == index(values, 1)
         IN <<7, At0(cards, i_pair), At0(cards, j_pair), At0(cards, i_kicker)>>
     ELSE IF length = 4 THEN
       LET i_pair == index(values, 2)
       IN <<8, At0(cards, i_pair)>> \o Before0(cards, i_pair)
             \o After0(cards, i_pair)
     ELSE None

\* The loop of PokerHand.__eq__ from index i on.
RECURSIVE eq_loop(_, _, _)
eq_loop(sw, ow, i) ==
  IF i >= Len(sw) THEN "True"
  ELSE IF i >= Len(ow) THEN "IndexError"
  ELSE IF ~card_eq(At0(sw, i), At0(ow, i)) THEN "False"
  ELSE eq_loop(sw, ow, i + 1)

\* PokerHand.__eq__: "True", "False", or the exception raised.
hand_eq(self, other) ==
  LET self_hand_weight == get_hand_weight(self)
      other_hand_weight == get_hand_weight(other)
  IN IF self_hand_weight = None \/ other_hand_weight = None THEN "TypeError"
     ELSE IF At0(self_hand_weight, 0) # At0(other_hand_weight, 0) THEN "False"
     ELSE eq_loop(self_hand_weight, other_hand_weight, 1)

\* The loop of __lt__ deciding on its first component, equal or not.
lt_loop_first(sw, ow, i) ==
  IF i >= Len(sw) THEN "False"
  ELSE IF i >= Len(ow) THEN "IndexError"
  ELSE IF card_lt(At0(sw, i), At0(ow, i)) THEN "True"
  ELSE "False"

\* The loop of PokerHand.__lt__ from index i on.
RECURSIVE lt_loop(_, _, _)
lt_loop(sw, ow, i) ==
  IF i >= Len(sw) THEN "False"
  ELSE IF i >= Len(ow) THEN "IndexError"
  ELSE IF card_eq(At0(sw, i), At0(ow, i)) THEN lt_loop(sw, ow, i + 1)
  ELSE IF card_lt(At0(sw, i), At0(ow, i)) THEN "True"
  ELSE "False"

\* __lt__ with <= between the categories.
hand_lt_le(self, other) ==
  LET self_hand_weight == get_hand_weight(self)
      other_hand_weight == get_hand_weight(other)
  IN IF self_hand_weight = None \/ other_hand_weight = None THEN "TypeError"
     ELSE IF At0(self_hand_weight, 0) <= At0(other_hand_weight, 0) THEN "True"
     ELSE "False"

\* PokerHand.__lt__: "True", "False", or the exception raised.
hand_lt(self, other) ==
  LET self_hand_weight == get_hand_weight(self)
      other_hand_weight == get_hand_weight(other)
  IN IF self_hand_weight = None \/ other_hand_weight = None THEN "TypeError"
     ELSE IF At0(self_hand_weight, 0) < At0(other_hand_weight, 0) THEN "True"
     ELSE IF At0(self_hand_weight, 0) = At0(other_hand_weight, 0)
          THEN lt_loop(self_hand_weight, other_hand_weight, 1)
     ELSE "False"

\* ---------------------------------------------------------------- inputs

\* The callers of the two-hand runs draw their hands from the ranks
\* RankChars[1..NumRanks].
NumRanks == 6

\* The callers of the three-hand runs draw theirs from RankChars[1..NumRanks3].
NumRanks3 == 3

\* Rank positions of a hand, strongest first (a multiset of five ranks).
RankRows(n) ==
  UNION {UNION {UNION {UNION {{<<a, b, c, d, e>> : e \in d..n} : d \in c..n} :
                         c \in b..n} : b \in a..n} : a \in 1..n}

\* Suit rows: row k < 4 deals the suits in rotation starting at suit k + 1;
\* row k >= 4 deals one suit to all five tokens.
SuitRow(k) ==
  IF k < 4 THEN [i \in 1..5 |-> SuitChars[((i - 1 + k) % 4) + 1]]
  ELSE [i \in 1..5 |-> SuitChars[(k % 4) + 1]]

\* The place in the row of the i-th token written: turns 0..4 write the row
\* rotated, turns 5..9 write it reversed and rotated.
Place(i, turn) ==
  IF turn < 5 THEN ((i - 1 + turn) % 5) + 1
  ELSE 5 - ((i - 1 + turn) % 5)

\* The hand string with the given ranks and suits, written in order `turn`.
HandString(ranks, suits, turn) ==
  [i \in 1..5 |-> <<RankChars[ranks[Place(i, turn)]], suits[Place(i, turn)]>>]

\* Five distinct cards of the deck.
WellFormed(hand) ==
  /\ Len(hand) = 5
  /\ \A i, j \in 1..5 : i # j => hand[i] # hand[j]

\* The well-formed hand strings over the first n ranks, dealt by a row of
\* `rows` and written in a turn of `turns`.
HandStrings(n, rows, turns) ==
  {h \in {HandString(r, SuitRow(k), t) :
            r \in RankRows(n), k \in rows, t \in turns} : WellFormed(h)}

\* The hands of the two-hand runs: the first is written strongest card first,
\* the second in another order and in other suits.
HandsA == {PokerHand(h) : h \in HandStrings(NumRanks, {0, 4}, {0})}
HandsB == {PokerHand(h) : h \in HandStrings(NumRanks, {1, 5}, {7})}

\* The pairs of hands that hold the same five ranks, over the first n ranks:
\* the second hand is the first one's cards written in another order, or the
\* same ranks in other suits.
SameRankHands(n) ==
  {<<PokerHand(p[1]), PokerHand(p[2])>> :
     p \in {q \in {<<HandString(r, SuitRow(d[1]), 0),
                      HandString(r, SuitRow(d[2]), d[3])>> :
                      r \in RankRows(n),
                      d \in {0, 4} \X {0, 1, 4, 5} \X {2, 7}} :
               WellFormed(q[1]) /\ WellFormed(q[2])}}

\* The hands of the three-hand runs.
Hands1 == {PokerHand(h) : h \in HandStrings(NumRanks3, {0}, {0})}
Hands2 == {PokerHand(h) : h \in HandStrings(NumRanks3, {1}, {2})}
Hands3 == {PokerHand(h) : h \in HandStrings(NumRanks3, {2}, {7})}

\* The comparisons a caller makes of two hands, and of three.
TwoHandCalls == <<<<"eq", 1, 2>>, <<"lt", 1, 2>>, <<"lt", 2, 1>>>>
ThreeHandCalls ==
  <<<<"lt", 1, 1>>, <<"lt", 1, 2>>, <<"lt", 2, 1>>, <<"lt", 2, 3>>,
    <<"lt", 1, 3>>, <<"eq", 1, 2>>, <<"eq", 2, 3>>, <<"eq", 1, 3>>>>

\* ------------------------------------------------------------ the program

VARIABLES
  hands,   \* the caller's list of PokerHand objects
  todo,    \* the comparisons the caller has still to make
  lt,      \* lt[i, j]: what hands[i] < hands[j] returned, or "unset"
  eq,      \* eq[i, j]: what hands[i] == hands[j] returned, or "unset"
  frame    \* the locals of the latest __eq__ or __lt__ call

vars == <<hands, todo, lt, eq, frame>>

Unset(n) == [p \in (1..n) \X (1..n) |-> "unset"]

\* No comparison has been called yet.
NoFrame ==
  [self |-> 0, other |-> 0, self_hand_weight |-> None, other_hand_weight |-> None]

\* The locals of hands[i].__eq__(hands[j]) or hands[i].__lt__(hands[j]).
Frame(i, j) ==
  [self |-> i, other |-> j,
   self_hand_weight |-> get_hand_weight(hands[i]),
   other_hand_weight |-> get_hand_weight(hands[j])]

\* Two hands constructed independently of each other.
Init ==
  /\ \E a \in HandsA, b \in HandsB : hands = <<a, b>>
  /\ todo = TwoHandCalls
  /\ lt = Unset(2)
  /\ eq = Unset(2)
  /\ frame = NoFrame

\* Two hands constructed from the same five ranks, any ranks of the deck.
InitSameRanks ==
  /\ hands \in SameRankHands(Len(RankChars))
  /\ todo = TwoHandCalls
  /\ lt = Unset(2)
  /\ eq = Unset(2)
  /\ frame = NoFrame

\* Three hands constructed independently of each other.
InitThree ==
  /\ \E a \in Hands1, b \in Hands2, c \in Hands3 : hands = <<a, b, c>>
  /\ todo = ThreeHandCalls
  /\ lt = Unset(3)
  /\ eq = Unset(3)
  /\ frame = NoFrame

\* hands[i] == hands[j]
CallEq ==
  /\ todo # <<>>
  /\ Head(todo)[1] = "eq"
  /\ LET i == Head(todo)[2]
         j == Head(todo)[3]
     IN /\ eq' = [eq EXCEPT ![<<i, j>>] = hand_eq(hands[i], hands[j])]
        /\ frame' = Frame(i, j)
  /\ todo' = Tail(todo)
  /\ UNCHANGED <<hands, lt>>

\* hands[i] < hands[j]
CallLt ==
  /\ todo # <<>>
  /\ Head(todo)[1] = "lt"
  /\ LET i == Head(todo)[2]
         j == Head(todo)[3]
     IN /\ lt' = [lt EXCEPT ![<<i, j>>] = hand_lt(hands[i], hands[j])]
        /\ frame' = Frame(i, j)
  /\ todo' = Tail(todo)
  /\ UNCHANGED <<hands, eq>>

Next == CallEq \/ CallLt

Spec == Init /\ [][Next]_vars

SpecSameRanks == InitSameRanks /\ [][Next]_vars

SpecThree == InitThree /\ [][Next]_vars

\* ------------------------------------------------- standard poker ranking
\* What the hands are by the rules of the game, read off the hand strings
\* without the program: the yardstick of the properties below.

\* The rank weight of a rank character: Ace 1, King 2, ..., Two 13.
RankWeight(c) ==
  CASE c = "A" -> 1 [] c = "K" -> 2 [] c = "Q" -> 3 [] c = "J" -> 4
    [] c = "T" -> 5 [] c = "9" -> 6 [] c = "8" -> 7 [] c = "7" -> 8
    [] c = "6" -> 9 [] c = "5" -> 10 [] c = "4" -> 11 [] c = "3" -> 12
    [] c = "2" -> 13

\* The rank weights of the tokens of a hand string, as written.
RankWeights(hand) == [i \in 1..Len(hand) |-> RankWeight(hand[i][1])]

\* The distinct rank weights of a hand, and how often it holds each.
Weights(hand) == {RankWeight(hand[i][1]) : i \in 1..Len(hand)}
CountIn(ws, w) == Cardinality({i \in DOMAIN ws : ws[i] = w})

\* Two hands hold the same ranks, each as often.
SameRanks(g, h) ==
  LET gs == RankWeights(g)
      hs == RankWeights(h)
  IN \A i \in 1..5 : CountIn(gs, gs[i]) = CountIn(hs, gs[i])

IsFlush(hand) == \A i \in 2..Len(hand) : hand[i][2] = hand[1][2]

\* Ace to Five: the Ace plays low.
IsWheel(hand) == Weights(hand) = {1, 10, 11, 12, 13}

\* Five consecutive ranks, the Ace high (Ten to Ace) or low (Ace to Five).
IsStraight(hand) ==
  LET ws == Weights(hand)
  IN \/ ws = {1, 10, 11, 12, 13}
     \/ \E top \in ws : top <= 9 /\ ws = top..(top + 4)

\* The rank weight of a straight's high card.
StraightHigh(hand) ==
  IF IsWheel(hand) THEN 10
  ELSE CHOOSE w \in Weights(hand) : \A v \in Weights(hand) : w <= v

\* The elements of a set of numbers in the ascending order of their scores.
RECURSIVE Ascending(_, _)
Ascending(set, score) ==
  IF set = {} THEN <<>>
  ELSE LET first == CHOOSE w \in set : \A v \in set : score[w] <= score[v]
       IN <<first>> \o Ascending(set \ {first}, score)

\* The ranks of a hand, the rank held most often first and, of ranks held
\* equally often, the stronger first: the quad then the kicker, the triple
\* then the pair, the stronger pair then the weaker then the kicker, ...
RanksByCount(hand) ==
  LET ws == RankWeights(hand)
      set == {ws[i] : i \in 1..Len(ws)}
      score == [w \in set |-> (5 - CountIn(ws, w)) * 14 + w]
  IN Ascending(set, score)

\* How often a hand holds each of its ranks, largest count first.
Shape(hand) ==
  LET ws == RankWeights(hand)
      ranks == RanksByCount(hand)
  IN [k \in 1..Len(ranks) |-> CountIn(ws, ranks[k])]

\* The rank weights the tie-break of a hand's category reads, in order.
TieBreak(hand) ==
  IF IsStraight(hand) THEN <<StraightHigh(hand)>> ELSE RanksByCount(hand)

\* The category number of a hand: 1 Straight Flush ... 9 High Card.
Category(hand) ==
  LET shape == Shape(hand)
  IN IF Len(shape) = 5 THEN
       IF IsStraight(hand) /\ IsFlush(hand) THEN 1
       ELSE IF IsFlush(hand) THEN 4
       ELSE IF IsStraight(hand) THEN 5
       ELSE 9
     ELSE IF shape = <<4, 1>> THEN 2
     ELSE IF shape = <<3, 2>> THEN 3
     ELSE IF shape = <<3, 1, 1>> THEN 6
     ELSE IF shape = <<2, 2, 1>> THEN 7
     ELSE 8

\* s comes before t in the lexicographic order of number sequences.
LexLess(s, t) ==
  \E k \in 1..Len(s) :
     /\ k <= Len(t)
     /\ s[k] < t[k]
     /\ \A m \in 1..(k - 1) : s[m] = t[m]

\* Hand g beats hand h.
Stronger(g, h) ==
  \/ Category(g) < Category(h)
  \/ Category(g) = Category(h) /\ LexLess(TieBreak(g), TieBreak(h))

\* The numbers a weight tuple reads as: its category and its cards' weights.
Numbers(weight) ==
  [k \in 1..Len(weight) |->
     IF k = 1 THEN weight[1] ELSE get_card_weight(weight[k])]

\* The caller has made all its comparisons.
Done == todo = <<>>

\* ----------------------------------------------------------------- claims

\* C1: for well-formed hands A and B, A < B is true exactly when A is the
\* stronger hand by the rules (category first, then the category's tie-break).
C1_LtIsStronger ==
  Done => (lt[<<1, 2>>] = "True" <=> Stronger(hands[1].hand, hands[2].hand))

\* C2: get_hand_weight never returns None for a well-formed hand, its first
\* component is the hand's category number, and two hands made of the same
\* five cards written in different orders get the same weight.
C2_CategoryIsStandard ==
  frame.self # 0 =>
    /\ frame.self_hand_weight # None
    /\ frame.other_hand_weight # None
    /\ frame.self_hand_weight[1] = Category(hands[frame.self].hand)
    /\ frame.other_hand_weight[1] = Category(hands[frame.other].hand)
    /\ (\A c \in 1..5 : \E d \in 1..5 :
          hands[frame.self].hand[c] = hands[frame.other].hand[d])
         => Numbers(frame.self_hand_weight) = Numbers(frame.other_hand_weight)

\* A straight flush Ace to Five was weighed against the same five cards
\* written in another order.
C2_Witness ==
  /\ Done
  /\ hands[1].hand # hands[2].hand
  /\ \A c \in 1..5 : \E d \in 1..5 : hands[1].hand[c] = hands[2].hand[d]
  /\ IsWheel(hands[1].hand)
  /\ frame.self_hand_weight[1] = 1
  /\ frame.other_hand_weight[1] = 1

\* C3: of two Full Houses, A < B exactly when (weight of the triple's rank,
\* weight of the pair's rank) of A is lexicographically smaller than B's, and
\* A == B exactly when both components are equal.
C3_FullHouseOrder ==
  (Done /\ Category(hands[1].hand) = 3 /\ Category(hands[2].hand) = 3) =>
    /\ lt[<<1, 2>>] = "True"
         <=> LexLess(TieBreak(hands[1].hand), TieBreak(hands[2].hand))
    /\ lt[<<2, 1>>] = "True"
         <=> LexLess(TieBreak(hands[2].hand), TieBreak(hands[1].hand))
    /\ eq[<<1, 2>>] = "True"
         <=> TieBreak(hands[1].hand) = TieBreak(hands[2].hand)

\* C4: of two Two Pair hands, A < B exactly when (weight of the stronger pair,
\* weight of the weaker pair, weight of the kicker) of A is lexicographically
\* smaller than B's, and A == B exactly when the three are equal.
C4_TwoPairOrder ==
  (Done /\ Category(hands[1].hand) = 7 /\ Category(hands[2].hand) = 7) =>
    /\ lt[<<1, 2>>] = "True"
         <=> LexLess(TieBreak(hands[1].hand), TieBreak(hands[2].hand))
    /\ lt[<<2, 1>>] = "True"
         <=> LexLess(TieBreak(hands[2].hand), TieBreak(hands[1].hand))
    /\ eq[<<1, 2>>] = "True"
         <=> TieBreak(hands[1].hand) = TieBreak(hands[2].hand)

\* C5: for a Four of a Kind, get_hand_weight returns (2, q, k) with q of the
\* weight of the rank held four times and k of the weight of the kicker, so
\* that of two such hands with the same four the one with the stronger kicker
\* is less than the other and the two are not equal.
C5_FourOfAKindWeight ==
  /\ (frame.self # 0 /\ Category(hands[frame.self].hand) = 2) =>
       Numbers(frame.self_hand_weight) = <<2>> \o TieBreak(hands[frame.self].hand)
  /\ (Done /\ Category(hands[1].hand) = 2 /\ Category(hands[2].hand) = 2
        /\ TieBreak(hands[1].hand)[1] = TieBreak(hands[2].hand)[1]
        /\ TieBreak(hands[1].hand)[2] < TieBreak(hands[2].hand)[2]) =>
       /\ lt[<<1, 2>>] = "True"
       /\ eq[<<1, 2>>] = "False"

\* C6: for a hand of five distinct ranks, is_a_straight returns a card
\* exactly when the ranks are consecutive, the Ace high or low but not
\* around the corner; the card returned weighs as the Five for Ace to Five,
\* as the Ace (1) for Ten to Ace, and else as the hand's strongest card, so
\* the Ace-to-Five straight has the weakest high card of all straights.
C6_StraightHighCard ==
  \A i \in 1..2 :
    (frame.self # 0 /\ Cardinality(Weights(hands[i].hand)) = 5) =>
      LET high == is_a_straight(hands[i])
          w == get_card_weight(high)
      IN /\ high # False <=> IsStraight(hands[i].hand)
         /\ high # False =>
              /\ w = StraightHigh(hands[i].hand)
              /\ w \in 1..RankWeight("5")
              /\ w = RankWeight("5") <=> IsWheel(hands[i].hand)
              /\ w = 1 <=> Weights(hands[i].hand) = 1..5
              /\ ~IsWheel(hands[i].hand) =>
                   \A v \in Weights(hands[i].hand) : w <= v
         /\ (i = frame.self /\ high # False) =>
              Numbers(frame.self_hand_weight) =
                <<Category(hands[i].hand), StraightHigh(hands[i].hand)>>

\* An unsuited Ace to Five was weighed as a Straight with the Five high.
C6_Witness ==
  /\ frame.self # 0
  /\ IsWheel(hands[frame.self].hand)
  /\ hands[frame.self].cards[1].rank = "A"
  /\ Numbers(frame.self_hand_weight) = <<5, RankWeight("5")>>

\* C7: of A == B, A < B and B < A exactly one holds.
C7_Trichotomy ==
  Done =>
    /\ {eq[<<1, 2>>], lt[<<1, 2>>], lt[<<2, 1>>]} \subseteq {"True", "False"}
    /\ Cardinality({c \in {<<"eq", 1, 2>>, <<"lt", 1, 2>>, <<"lt", 2, 1>>} :
                      IF c[1] = "eq" THEN eq[<<c[2], c[3]>>] = "True"
                      ELSE lt[<<c[2], c[3]>>] = "True"}) = 1

\* Two hands of one category were compared and the second was the lesser.
C7_Witness ==
  /\ Done
  /\ Category(hands[1].hand) = Category(hands[2].hand)
  /\ lt[<<2, 1>>] = "True"
  /\ lt[<<1, 2>>] = "False"
  /\ eq[<<1, 2>>] = "False"

\* C8: two hands of the same five ranks, both flushes or neither, are equal
\* and neither is less than the other, whatever their suits and the order of
\* their tokens.
C8_SuitsNeverBreakTies ==
  (Done /\ SameRanks(hands[1].hand, hands[2].hand)
        /\ (IsFlush(hands[1].hand) <=> IsFlush(hands[2].hand))) =>
    /\ eq[<<1, 2>>] = "True"
    /\ lt[<<1, 2>>] = "False"
    /\ lt[<<2, 1>>] = "False"

\* Two hands of the same ranks and of different suits, neither a flush, were
\* compared.
C8_Witness ==
  /\ Done
  /\ SameRanks(hands[1].hand, hands[2].hand)
  /\ \E c \in 1..5 : \A d \in 1..5 : hands[1].hand[c] # hands[2].hand[d]
  /\ ~IsFlush(hands[1].hand)
  /\ ~IsFlush(hands[2].hand)
  /\ eq[<<1, 2>>] = "True"

\* C9: of two Three of a Kind hands, or two One Pair hands, A < B exactly
\* when (weight of the triple or pair, then the kickers' weights from the
\* strongest to the weakest) of A is lexicographically smaller than B's, and
\* A == B exactly when these keys are equal: the copies of the group's rank
\* left among the kickers of the code's tuple change nothing.
C9_GroupThenKickers ==
  Done =>
    LET a == Category(hands[1].hand)
        ka == TieBreak(hands[1].hand)
        kb == TieBreak(hands[2].hand)
    IN (a \in {6, 8} /\ Category(hands[2].hand) = a) =>
         /\ lt[<<1, 2>>] = "True" <=> LexLess(ka, kb)
         /\ lt[<<2, 1>>] = "True" <=> LexLess(kb, ka)
         /\ eq[<<1, 2>>] = "True" <=> ka = kb

\* Two hands with the same pair, weaker than both hands' best kickers, were
\* compared and a kicker weaker than the pair decided.
C9_Witness ==
  /\ Done
  /\ Category(hands[1].hand) = 8
  /\ Category(hands[2].hand) = 8
  /\ TieBreak(hands[1].hand)[1] = TieBreak(hands[2].hand)[1]
  /\ TieBreak(hands[1].hand)[2] = TieBreak(hands[2].hand)[2]
  /\ TieBreak(hands[1].hand)[2] < TieBreak(hands[1].hand)[1]
  /\ TieBreak(hands[1].hand)[1] < TieBreak(hands[1].hand)[4]
  /\ TieBreak(hands[1].hand)[4] < TieBreak(hands[2].hand)[4]
  /\ lt[<<1, 2>>] = "True"

\* C10: __lt__ is a strict weak order: never A < A; A < B and B < C imply
\* A < C; A == B exactly when neither A < B nor B < A; A == B and B == C
\* imply A == C; and no comparison reads past the end of a weight tuple,
\* two hands of one category having tuples of one length.
C10_StrictWeakOrder ==
  /\ frame.self # 0 =>
       (frame.self_hand_weight[1] = frame.other_hand_weight[1]
          => Len(frame.self_hand_weight) = Len(frame.other_hand_weight))
  /\ Done =>
       /\ lt[<<1, 1>>] = "False"
       /\ \A p \in {<<1, 2>>, <<2, 1>>, <<2, 3>>, <<1, 3>>} : lt[p] \in {"True", "False"}
       /\ \A p \in {<<1, 2>>, <<2, 3>>, <<1, 3>>} : eq[p] \in {"True", "False"}
       /\ (lt[<<1, 2>>] = "True" /\ lt[<<2, 3>>] = "True") => lt[<<1, 3>>] = "True"
       /\ eq[<<1, 2>>] = "True"
            <=> (lt[<<1, 2>>] = "False" /\ lt[<<2, 1>>] = "False")
       /\ (eq[<<1, 2>>] = "True" /\ eq[<<2, 3>>] = "True") => eq[<<1, 3>>] = "True"

\* Three hands of one category were compared, each less than the next.
C10_Witness ==
  /\ Done
  /\ Category(hands[1].hand) = Category(hands[2].hand)
  /\ Category(hands[2].hand) = Category(hands[3].hand)
  /\ lt[<<1, 2>>] = "True"
  /\ lt[<<2, 3>>] = "True"
  /\ lt[<<1, 3>>] = "True"

====
